---------------------------- MODULE Spec2Model ----------------------------
(***************************************************************************)
(* A model of pbs/job.py: the Job object, its serialisation to a qsub      *)
(* script (Job.qsub_string), the parser of such scripts (Job.read) and     *)
(* Job.submit.                                                             *)
(*                                                                         *)
(* Python strings are TLA+ strings; a character is a string of length 1.   *)
(* A Job object is a function from the names of the attributes that have   *)
(* been assigned to their values, as an instance __dict__ is.              *)
(***************************************************************************)
EXTENDS Integers, Sequences, FiniteSets, TLC

(***************************************************************************)
(* Bounds of the model.                                                    *)
(***************************************************************************)
\* Job(...) is constructed with nodes in 1..MaxNodes.
MaxNodes == 2
\* Job(...) is constructed with at most this many optional arguments given.
MaxOptional == 2
\* A hand-written script carries at most this many lines besides its
\* required directives before the anchor.
MaxExtra == 1
\* A hand-written script carries at most this many lines after the anchor.
MaxTail == 2
\* submit() is called at most this many times on one Job.
MaxSubmits == 1

(***************************************************************************)
(* Python values.                                                          *)
(***************************************************************************)
\* Python's None.  No string of the program equals this one.
None == "<py:None>"

\* "{0}".format(v) of a string or of None.
Str(v) == IF v = None THEN "None" ELSE v

\* "{0}".format(b) of a bool.
BoolStr(b) == IF b THEN "True" ELSE "False"

Digits == "0123456789"

RECURSIVE NatStr(_)
NatStr(n) == IF n < 10 THEN SubSeq(Digits, n + 1, n + 1)
             ELSE NatStr(n \div 10) \o SubSeq(Digits, (n % 10) + 1, (n % 10) + 1)

\* "{0}".format(n) of an int.
IntStr(n) == IF n < 0 THEN "-" \o NatStr(-n) ELSE NatStr(n)

Ch(s, i) == SubSeq(s, i, i)

\* The characters \s matches in a byte-string pattern (\v is left out: it
\* cannot be written in a TLA+ string).
Whitespace == {" ", "\t", "\n", "\r", "\f"}

IsSpace(c) == c \in Whitespace

SetMax(S) == CHOOSE m \in S : \A e \in S : e <= m
SetMin(S) == CHOOSE m \in S : \A e \in S : m <= e

\* s.strip()
Strip(s) ==
    LET keep == {i \in 1..Len(s) : ~IsSpace(Ch(s, i))}
    IN IF keep = {} THEN "" ELSE SubSeq(s, SetMin(keep), SetMax(keep))

DigitVal(c) == (CHOOSE i \in 1..10 : Ch(Digits, i) = c) - 1

IsDigit(c) == \E i \in 1..10 : Ch(Digits, i) = c

RECURSIVE NatVal(_)
NatVal(s) == IF Len(s) = 0 THEN 0
             ELSE 10 * NatVal(SubSeq(s, 1, Len(s) - 1)) + DigitVal(Ch(s, Len(s)))

\* int(s) of a string: surrounding whitespace is dropped, one sign is
\* allowed, the rest must be decimal digits; anything else is a ValueError.
PyInt(s) ==
    LET t == Strip(s)
        signed == Len(t) > 0 /\ Ch(t, 1) \in {"+", "-"}
        d == IF signed THEN SubSeq(t, 2, Len(t)) ELSE t
    IN IF Len(d) > 0 /\ \A i \in 1..Len(d) : IsDigit(Ch(d, i))
       THEN [ok |-> TRUE,
             val |-> IF signed /\ Ch(t, 1) = "-" THEN 0 - NatVal(d) ELSE NatVal(d)]
       ELSE [ok |-> FALSE, val |-> 0]

(***************************************************************************)
(* Regular expressions, as the re module evaluates the patterns of read(). *)
(* A match is the tuple of its groups; NoMatch stands for None.            *)
(***************************************************************************)
NoMatch == <<"<no match>">>

\* Whether the literal lit stands in s at index i.
LitAt(s, i, lit) ==
    /\ i >= 1
    /\ i + Len(lit) - 1 <= Len(s)
    /\ SubSeq(s, i, i + Len(lit) - 1) = lit

\* re.search(lit, s) for a literal pattern.
SearchLit(s, lit) == \E i \in 1..Len(s) : LitAt(s, i, lit)

RECURSIVE SpaceRun(_, _)
\* The number of whitespace characters from index p on.
SpaceRun(s, p) ==
    IF p > Len(s) \/ ~IsSpace(Ch(s, p)) THEN 0 ELSE 1 + SpaceRun(s, p + 1)

RECURSIVE DotReach(_, _)
\* The last index e >= p - 1 such that s[p..e] holds no newline: how far a
\* greedy .* reaches from p.
DotReach(s, p) ==
    IF p > Len(s) \/ Ch(s, p) = "\n" THEN p - 1 ELSE DotReach(s, p + 1)

\* "(.*)\s" tried at p: the ends g of the group, among which the greedy
\* match takes the largest.
GroupEnds(s, p) ==
    {g \in (p - 1)..DotReach(s, p) : g + 1 <= Len(s) /\ IsSpace(Ch(s, g + 1))}

\* "(.*)<lit>" tried at p: the ends of the group such that lit follows.
GroupEndsBefore(s, p, lit) ==
    {g \in (p - 1)..DotReach(s, p) : LitAt(s, g + 1, lit)}

\* How many whitespace characters the part of a pattern between its literal
\* and its group may take, of a run of n: "" is no such part, "*" is \s*,
\* "+" is \s+.
WsChoices(ws, n) ==
    IF ws = "" THEN {0} ELSE IF ws = "*" THEN 0..n ELSE 1..n

\* The pattern  lit ws (.*) \s  tried at index i: the starts p of the group
\* for which the rest of the pattern matches.
GroupStarts(s, i, lit, ws) ==
    IF ~LitAt(s, i, lit) THEN {}
    ELSE LET q == i + Len(lit)
         IN {p \in {q + k : k \in WsChoices(ws, SpaceRun(s, q))} :
                GroupEnds(s, p) # {}}

\* The match of  lit ws (.*) \s  at index i: the whitespace part is greedy,
\* then the group is.
MatchAt(s, i, lit, ws) ==
    LET starts == GroupStarts(s, i, lit, ws)
    IN IF starts = {} THEN NoMatch
       ELSE LET p == SetMax(starts)
            IN <<SubSeq(s, p, SetMax(GroupEnds(s, p)))>>

\* re.search of  lit ws (.*) \s : the leftmost match.
SearchGroup(s, lit, ws) ==
    LET at == {i \in 1..Len(s) : GroupStarts(s, i, lit, ws) # {}}
    IN IF at = {} THEN NoMatch ELSE MatchAt(s, SetMin(at), lit, ws)

\* re.match of  lit \s+ (.*) \s : a match at the start of s only.
MatchGroup(s, lit) == MatchAt(s, 1, lit, "+")

\* re.search("nodes=(.*):ppn=(.*)\s", s): both groups are greedy, the
\* first one has the choice first.
SearchNodes(s) ==
    LET ends(i) == IF ~LitAt(s, i, "nodes=") THEN {}
                   ELSE {g \in GroupEndsBefore(s, i + 6, ":ppn=") :
                            GroupEnds(s, g + 6) # {}}
        at == {i \in 1..Len(s) : ends(i) # {}}
    IN IF at = {} THEN NoMatch
       ELSE LET i == SetMin(at)
                g == SetMax(ends(i))
            IN <<SubSeq(s, i + 6, g),
                 SubSeq(s, g + 6, SetMax(GroupEnds(s, g + 6)))>>

\* re.search("\s-l\s", s)
SearchDashL(s) ==
    \E i \in 1..Len(s) : /\ i + 3 <= Len(s)
                         /\ IsSpace(Ch(s, i))
                         /\ LitAt(s, i + 1, "-l")
                         /\ IsSpace(Ch(s, i + 3))

\* re.search("cd\s+\$PBS_O_WORKDIR\s+", s)
SearchAnchor(s) ==
    \E i \in 1..Len(s) :
        /\ LitAt(s, i, "cd")
        /\ \E k \in 1..SpaceRun(s, i + 2) :
              /\ LitAt(s, i + 2 + k, "$PBS_O_WORKDIR")
              /\ SpaceRun(s, i + 2 + k + 14) >= 1

\* re.match("[fF](alse)*|0", g): a match of a prefix of g.  (alse)* also
\* matches no character, so the first character decides.
MatchFalse(g) == Len(g) > 0 /\ Ch(g, 1) \in {"f", "F", "0"}

\* re.match("[tT](rue)*|1", g)
MatchTrue(g) == Len(g) > 0 /\ Ch(g, 1) \in {"t", "T", "1"}

(***************************************************************************)
(* The Job object.                                                         *)
(***************************************************************************)
\* obj.k = v
SetAttr(obj, k, v) == (k :> v) @@ obj

\* An object none of whose attributes has been assigned.
NoAttrs == [k \in {} |-> None]

\* Job.__init__ without qsubstr, of the arguments a.
Job(a) ==
    [name |-> a.name, account |-> a.account, nodes |-> a.nodes,
     ppn |-> a.ppn, walltime |-> a.walltime, pmem |-> a.pmem,
     queue |-> a.queue, exetime |-> a.exetime, message |-> a.message,
     email |-> a.email, priority |-> a.priority, command |-> a.command,
     auto |-> a.auto, jobID |-> None]

\* The lines of a script, one operator per format string of qsub_string.
NameLine(v) == "#PBS -N " \o Str(v) \o "\n"
ExetimeLine(v) == "#PBS -a " \o Str(v) \o "\n"
AccountLine(v) == "#PBS -A " \o Str(v) \o "\n"
WalltimeLine(v) == "#PBS -l walltime=" \o Str(v) \o "\n"
NodesLine(n, p) == "#PBS -l nodes=" \o IntStr(n) \o ":ppn=" \o IntStr(p) \o "\n"
PmemLine(v) == "#PBS -l pmem=" \o Str(v) \o "\n"
QosLine(v) == "#PBS -l qos=" \o Str(v) \o "\n"
QueueLine(v) == "#PBS -q " \o Str(v) \o "\n"
EmailLine(v) == "#PBS -M " \o Str(v) \o "\n"
MessageLine(v) == "#PBS -m " \o Str(v) \o "\n"
PriorityLine(v) == "#PBS -p " \o Str(v) \o "\n"
AutoLine(v) == "#auto=" \o v \o "\n"
AnchorLine == "cd $PBS_O_WORKDIR\n"

\* The -M and -m lines of qsub_string: both or neither.
MailLinesEither(j) ==
    IF j.email # None \/ j.message # None
    THEN EmailLine(j.email) \o MessageLine(j.message)
    ELSE ""

MailLines(j) ==
    IF j.email # None /\ j.message # None
    THEN EmailLine(j.email) \o MessageLine(j.message)
    ELSE ""

\* Job.qsub_string
qsub_string(j) ==
       "#!/bin/sh\n"
    \o "#PBS -S /bin/sh\n"
    \o NameLine(j.name)
    \o (IF j.exetime # None THEN ExetimeLine(j.exetime) ELSE "")
    \o (IF j.account # None THEN AccountLine(j.account) ELSE "")
    \o WalltimeLine(j.walltime)
    \o NodesLine(j.nodes, j.ppn)
    \o (IF j.pmem # None THEN PmemLine(j.pmem) ELSE "")
    \o QosLine(j.queue)
    \o QueueLine(j.queue)
    \o MailLines(j)
    \o "#PBS -V\n"
    \o PriorityLine(j.priority) \o "\n"
    \o AutoLine(BoolStr(j.auto)) \o "\n"
    \o "echo \"I ran on:\"\n"
    \o "cat $PBS_NODEFILE\n\n"
    \o AnchorLine
    \o Str(j.command) \o "\n"

(***************************************************************************)
(* StringIO: a text and the offset of the next character to read.          *)
(***************************************************************************)
RECURSIVE LineEnd(_, _)
\* The index of the first newline from index i on, or the last index.
LineEnd(text, i) ==
    IF i > Len(text) THEN Len(text)
    ELSE IF Ch(text, i) = "\n" THEN i ELSE LineEnd(text, i + 1)

\* s.readline() at offset pos: up to and with the next newline, or up to the
\* end of the text; "" at the end.
Readline(text, pos) == SubSeq(text, pos + 1, LineEnd(text, pos + 1))

\* A read() that drops the line it starts in.
ReadRestSkip(text, pos) ==
    SubSeq(text, pos + 1 + Len(Readline(text, pos)), Len(text))

\* s.read() at offset pos: all that is left.
ReadRest(text, pos) == SubSeq(text, pos + 1, Len(text))

(***************************************************************************)
(* The state.                                                              *)
(***************************************************************************)
VARIABLES
    job,        \* the Job constructed from arguments, NoAttrs if there is none
    script,     \* the lines a hand-written script was put together from
    qsubstr,    \* the text read() is given
    pos,        \* the offset of the StringIO s of read()
    line,       \* the last line readline() returned
    self,       \* the Job that read() sets
    optional,   \* the dict optional of read()
    required,   \* the dict required of read()
    pc,         \* where read() is: idle, scan, check, returned, raised
    exc,        \* the exception that left the last call, None if it returned
    report,     \* what read() printed
    submits,    \* how many times submit() ran
    calls,      \* how many times misc.submit was called
    miscRaised, \* what misc.submit raised in the last submit(), None if nothing
    add,        \* the argument add of the last submit()
    db          \* the records added to the JobDB

vars == <<job, script, qsubstr, pos, line, self, optional, required, pc, exc,
          report, submits, calls, miscRaised, add, db>>

readVars == <<script, qsubstr, pos, line, self, optional, required, pc, report>>

submitVars == <<submits, calls, miscRaised, add, db>>

(***************************************************************************)
(* Job.read, lines 194 to 218: the defaults and the two dicts.  The dicts  *)
(* are only compared with "Not Found" and printed, so an int or a bool is  *)
(* kept in them as it prints.                                              *)
(***************************************************************************)
NotFound == "Not Found"

ReadDefaults(obj) ==
    [k \in DOMAIN obj \cup {"pmem", "email", "message", "priority", "auto",
                            "account", "exetime"} |->
        CASE k = "message" -> "a"
          [] k = "priority" -> "0"
          [] k = "auto" -> FALSE
          [] k \in {"pmem", "email", "account", "exetime"} -> None
          [] OTHER -> obj[k]]

OptionalInit ==
    [account |-> "Default: None", pmem |-> "Default: None",
     email |-> "Default: None", message |-> "Default: a",
     priority |-> "Default: 0", auto |-> "Default: False",
     exetime |-> "Default: None"]

RequiredKeys == {"name", "walltime", "nodes", "ppn", "queue",
                 "cd $PBS_O_WORKDIR", "command"}

RequiredInit == [k \in RequiredKeys |-> NotFound]

(***************************************************************************)
(* Job.read, lines 224 to 292: what one line does to the Job and the       *)
(* dicts.  st holds self, optional, required, the exception raised (None   *)
(* while none is) and what was printed; a step after an exception is not   *)
(* run.                                                                    *)
(***************************************************************************)
\* if m: self.k = m.group(1); required[k] = self.k
SetRequired(st, m, k) ==
    IF st.exc # None \/ m = NoMatch THEN st
    ELSE [st EXCEPT !.self = SetAttr(@, k, m[1]),
                    !.required = SetAttr(@, k, m[1])]

\* if m: self.k = m.group(1); optional[k] = self.k
SetOptional(st, m, k) ==
    IF st.exc # None \/ m = NoMatch THEN st
    ELSE [st EXCEPT !.self = SetAttr(@, k, m[1]),
                    !.optional = SetAttr(@, k, m[1])]

\* Lines 248 to 253: int() of either group may raise ValueError.
SetNodes(st, m) ==
    IF st.exc # None \/ m = NoMatch THEN st
    ELSE LET n == PyInt(m[1])
             p == PyInt(m[2])
         IN IF ~n.ok THEN [st EXCEPT !.exc = "ValueError"]
            ELSE IF ~p.ok
            THEN [st EXCEPT !.self = SetAttr(@, "nodes", n.val),
                            !.exc = "ValueError"]
            ELSE [st EXCEPT
                    !.self = SetAttr(SetAttr(@, "nodes", n.val), "ppn", p.val),
                    !.required = SetAttr(SetAttr(@, "nodes", IntStr(n.val)),
                                         "ppn", IntStr(p.val))]

\* Lines 241 to 258: the -l resources.
ScanResources(st, ln) ==
    IF ~SearchDashL(ln) THEN st
    ELSE LET s1 == SetRequired(st, SearchGroup(ln, "walltime=", ""), "walltime")
             s2 == SetNodes(s1, SearchNodes(ln))
         IN SetOptional(s2, SearchGroup(ln, "pmem=", ""), "pmem")

\* Lines 224 to 279: a line that holds "#PBS".
ScanPBS(st, ln) ==
    IF ~SearchLit(ln, "#PBS") THEN st
    ELSE LET s1 == SetRequired(st, SearchGroup(ln, "-N", "+"), "name")
             s2 == SetOptional(s1, SearchGroup(ln, "-A", "+"), "account")
             s3 == SetOptional(s2, SearchGroup(ln, "-a", "+"), "exetime")
             s4 == ScanResources(s3, ln)
             s5 == SetRequired(s4, SearchGroup(ln, "-q", "+"), "queue")
             s6 == SetOptional(s5, MatchGroup(ln, "-M"), "email")
             s7 == SetOptional(s6, MatchGroup(ln, "-m"), "message")
         IN SetOptional(s7, MatchGroup(ln, "-p"), "priority")

\* Lines 282 to 292.  sys is not imported by job.py: sys.exit() raises
\* NameError after the message is printed.
ScanAuto(st, ln) ==
    LET m == SearchGroup(ln, "auto=", "*")
    IN IF st.exc # None \/ m = NoMatch THEN st
       ELSE IF MatchFalse(m[1])
       THEN [st EXCEPT !.self = SetAttr(@, "auto", FALSE),
                       !.optional = SetAttr(@, "auto", "False")]
       ELSE IF MatchTrue(m[1])
       THEN [st EXCEPT !.self = SetAttr(@, "auto", TRUE),
                       !.optional = SetAttr(@, "auto", "True")]
       ELSE [st EXCEPT !.exc = "NameError",
                       !.report = <<[kind |-> "auto", line |-> ln]>>]

\* Lines 224 to 292.
ScanLine(st, ln) == ScanAuto(ScanPBS(st, ln), ln)

\* Lines 303 and 304, with "queue" forgotten.
MissingRequiredNoQueue(req) ==
    {k \in DOMAIN req \ {"queue"} : req[k] = NotFound}

\* Lines 303 and 304: the keys of required still "Not Found".
MissingRequired(req) == {k \in DOMAIN req : req[k] = NotFound}

(***************************************************************************)
(* The inputs: the Jobs that are constructed from arguments, and the       *)
(* scripts written by hand.                                                *)
(***************************************************************************)
DefaultArgs ==
    [name |-> "STDIN", account |-> None, nodes |-> 1, ppn |-> 1,
     walltime |-> "10:00:00", pmem |-> None, queue |-> "flux",
     exetime |-> None, message |-> "a", email |-> None, priority |-> "0",
     command |-> "echo hi", auto |-> FALSE]

OptionalNames ==
    {"account", "pmem", "exetime", "message", "email", "priority", "auto"}

\* The optional arguments of a that are given a value other than the default.
Given(a) == {k \in OptionalNames : a[k] # DefaultArgs[k]}

JobArgs ==
    {a \in [name : {"job1"},
            account : {None, "prismsproject_flux"},
            nodes : 1..MaxNodes,
            ppn : {16},
            walltime : {"10:00:00"},
            pmem : {None, "3800mb"},
            queue : {"flux"},
            exetime : {None, "1830"},
            message : {"a", "abe", None},
            email : {None, "jdoe@umich.edu"},
            priority : {"0", "-200"},
            command : {"echo hi", "ls\n#PBS -N other"},
            auto : BOOLEAN] :
        Cardinality(Given(a)) <= MaxOptional}

Jobs == {Job(a) : a \in JobArgs}

\* A line of a hand-written script: what it is meant to set, and to what.
Directive(kind, val) == [kind |-> kind, val |-> val, n |-> 0, p |-> 0]

NodesDirective(n, p) == [kind |-> "nodes", val |-> "", n |-> n, p |-> p]

\* The text of a line, in the format qsub_string writes.
Render(d) ==
    CASE d.kind = "name" -> NameLine(d.val)
      [] d.kind = "account" -> AccountLine(d.val)
      [] d.kind = "exetime" -> ExetimeLine(d.val)
      [] d.kind = "walltime" -> WalltimeLine(d.val)
      [] d.kind = "nodes" -> NodesLine(d.n, d.p)
      [] d.kind = "pmem" -> PmemLine(d.val)
      [] d.kind = "queue" -> QueueLine(d.val)
      [] d.kind = "email" -> EmailLine(d.val)
      [] d.kind = "message" -> MessageLine(d.val)
      [] d.kind = "priority" -> PriorityLine(d.val)
      [] d.kind = "auto" -> AutoLine(d.val)
      [] d.kind = "anchor" -> "cd $PBS_O_WORKDIR" \o d.val \o "\n"
      [] OTHER -> d.val \o "\n"

RECURSIVE Flatten(_)
Flatten(ds) == IF ds = <<>> THEN "" ELSE Render(Head(ds)) \o Flatten(Tail(ds))

\* The required directives of a script.
FullHead ==
    <<Directive("name", "job1"), Directive("walltime", "10:00:00"),
      NodesDirective(2, 16), Directive("queue", "flux")>>

Anchor == Directive("anchor", "")

\* An anchor line that goes on with a directive.
AnchorThenQueue == Directive("anchor", " #PBS -q flux")

ExtraLines ==
    {Directive("name", "job2"), NodesDirective(0, -1),
     Directive("account", "prismsproject_flux"), Directive("exetime", "1830"),
     Directive("email", "jdoe@umich.edu"), Directive("priority", "-200"),
     Directive("auto", "TRUE"), Directive("auto", "false"),
     Directive("auto", "tomato"), Directive("auto", "maybe")}

TailLines ==
    {Directive("text", "echo hi"), Directive("name", "other"),
     Directive("queue", "batch"), Directive("auto", "maybe"), Anchor}

Reverse(s) == [i \in 1..Len(s) |-> s[Len(s) + 1 - i]]

RECURSIVE Pick(_, _)
\* The lines of s whose index is in keep, in the order of s.
Pick(s, keep) ==
    IF s = <<>> THEN <<>>
    ELSE LET rest == Pick(Tail(s), {i - 1 : i \in keep \ {1}})
         IN IF 1 \in keep THEN <<Head(s)>> \o rest ELSE rest

\* s with the line d put in after its first i lines.
InsertAt(s, i, d) == SubSeq(s, 1, i) \o <<d>> \o SubSeq(s, i + 1, Len(s))

RECURSIVE WithExtras(_, _)
\* The scripts made of s by putting in at most k lines of ExtraLines.
WithExtras(S, k) ==
    IF k = 0 THEN S
    ELSE S \cup WithExtras({InsertAt(s, i, d) :
                               s \in S, i \in 0..Len(FullHead) + MaxExtra - k,
                               d \in ExtraLines} , k - 1)

SeqsUpTo(S, n) == UNION {[1..m -> S] : m \in 0..n}

\* Scripts with some required directives left out, in either order, with
\* or without an anchor, and at most one line after.
PartialScripts ==
    {h \o a \o t :
        h \in {Pick(f, keep) : f \in {FullHead, Reverse(FullHead)},
                               keep \in SUBSET (1..Len(FullHead))},
        a \in {<<>>, <<Anchor>>, <<AnchorThenQueue>>},
        t \in SeqsUpTo(TailLines, 1)}

\* Scripts with all required directives and other lines among them.
ExtraScripts ==
    {h \o <<Anchor, Directive("text", "echo hi")>> :
        h \in WithExtras({FullHead}, MaxExtra)}

\* Scripts with all required directives and lines after the anchor.
TailScripts == {FullHead \o <<Anchor>> \o t : t \in SeqsUpTo(TailLines, MaxTail)}

HandScripts == PartialScripts \cup ExtraScripts \cup TailScripts

JobIDs == {"101.nyx", "102.nyx"}

\* What misc.submit may raise.
SubmitErrors == {"PBSError", "OSError"}

(***************************************************************************)
(* Init: a Job has been constructed from arguments, or none has and a      *)
(* script is at hand.                                                      *)
(***************************************************************************)
Init ==
    /\ job \in Jobs \cup {NoAttrs}
    /\ script = <<>>
    /\ qsubstr = ""
    /\ pos = 0
    /\ line = None
    /\ self = NoAttrs
    /\ optional = OptionalInit
    /\ required = RequiredInit
    /\ pc = "idle"
    /\ exc = None
    /\ report = <<>>
    /\ submits = 0
    /\ calls = 0
    /\ miscRaised = None
    /\ add = TRUE
    /\ db = <<>>

(***************************************************************************)
(* Job(qsubstr = text): lines 46 and 47, then read() up to its loop.       *)
(***************************************************************************)
ReadBegin(text) ==
    /\ pc = "idle"
    /\ qsubstr' = text
    /\ pos' = 0
    /\ self' = ReadDefaults(NoAttrs)
    /\ optional' = OptionalInit
    /\ required' = RequiredInit
    /\ pc' = "scan"
    /\ UNCHANGED <<job, line, exc, report, submitVars>>

\* Job(qsubstr = job.qsub_string())
ReadSerialized ==
    /\ DOMAIN job # {}
    /\ ReadBegin(qsub_string(job))
    /\ script' = <<>>

\* Job(qsubstr = text) of a script written by hand.
ReadScript ==
    /\ DOMAIN job = {}
    /\ \E sc \in HandScripts :
          /\ ReadBegin(Flatten(sc))
          /\ script' = sc

(***************************************************************************)
(* One turn of the loop of read(), lines 220 to 299.                       *)
(***************************************************************************)
ReadLine ==
    /\ pc = "scan"
    /\ LET ln == Readline(qsubstr, pos)
           at == pos + Len(ln)
           st == ScanLine([self |-> self, optional |-> optional,
                           required |-> required, exc |-> None,
                           report |-> report], ln)
       IN /\ line' = ln
          /\ optional' = st.optional
          /\ exc' = st.exc
          /\ report' = st.report
          /\ IF st.exc # None
             THEN /\ pc' = "raised"
                  /\ pos' = at
                  /\ self' = st.self
                  /\ required' = st.required
             ELSE IF SearchAnchor(ln)
             THEN /\ pc' = "check"
                  /\ pos' = Len(qsubstr)
                  /\ self' = SetAttr(st.self, "command", ReadRest(qsubstr, at))
                  /\ required' =
                        SetAttr(SetAttr(st.required, "cd $PBS_O_WORKDIR", "Found"),
                                "command", ReadRest(qsubstr, at))
             ELSE /\ pc' = "scan"
                  /\ pos' = at
                  /\ self' = st.self
                  /\ required' = st.required
    /\ UNCHANGED <<job, script, qsubstr, submitVars>>

(***************************************************************************)
(* Lines 302 to 317.  The report is printed, then sys.exit() raises        *)
(* NameError: job.py does not import sys.                                  *)
(***************************************************************************)
CheckRequired ==
    /\ pc = "check"
    /\ IF MissingRequired(required) # {}
       THEN /\ report' = Append(report, [kind |-> "required",
                                         optional |-> optional,
                                         required |-> required])
            /\ exc' = "NameError"
            /\ pc' = "raised"
       ELSE /\ pc' = "returned"
            /\ UNCHANGED <<report, exc>>
    /\ UNCHANGED <<job, script, qsubstr, pos, line, self, optional, required,
                   submitVars>>

(***************************************************************************)
(* Job.submit, lines 158 to 179.  misc.submit returns an identifier or     *)
(* raises.  When it raises, the except clause looks PBSError up, a name    *)
(* job.py never binds, and NameError leaves submit() in place of what was  *)
(* raised.  Of the record, the fields taken from the Job are kept.         *)
(***************************************************************************)
StatusRecord(j) ==
    [jobid |-> j.jobID, jobname |-> j.name, jobstatus |-> "?",
     auto |-> j.auto, qsubstr |-> qsub_string(j), nodes |-> j.nodes,
     procs |-> j.nodes * j.ppn]

SubmitRaises(e) ==
    /\ miscRaised' = e
    /\ exc' = "NameError"
    /\ UNCHANGED <<job, db>>

SubmitReturns(id) ==
    /\ miscRaised' = None
    /\ exc' = None
    /\ job' = SetAttr(job, "jobID", id)
    /\ db' = IF add' THEN Append(db, StatusRecord(job')) ELSE db

Submit ==
    /\ pc = "idle"
    /\ DOMAIN job # {}
    /\ submits < MaxSubmits
    /\ submits' = submits + 1
    /\ calls' = calls + 1
    /\ add' \in BOOLEAN
    /\ \/ \E e \in SubmitErrors : SubmitRaises(e)
       \/ \E id \in JobIDs : SubmitReturns(id)
    /\ UNCHANGED readVars

Next == ReadSerialized \/ ReadScript \/ ReadLine \/ CheckRequired

Spec == Init /\ [][Next]_vars

SubmitSpec == Init /\ [][Submit]_vars

(***************************************************************************)
(* What the properties below speak of.                                     *)
(***************************************************************************)
\* read() has ended, by returning or by an exception.
Terminal == pc \in {"returned", "raised"}

\* read() was given job.qsub_string().
RoundTrip == pc # "idle" /\ DOMAIN job # {}

\* read() was given a script written by hand.
HandWritten == pc # "idle" /\ DOMAIN job = {}

\* The loop of read() met a line that matches the anchor.
AnchorFound == required["cd $PBS_O_WORKDIR"] = "Found"

\* read() printed the report of the required arguments, and ended there.
FailedMissing ==
    /\ pc = "raised"
    /\ report # <<>>
    /\ report[Len(report)].kind = "required"

UpperCase == "ABCDEFGHIJKLMNOPQRSTUVWXYZ"
LowerCase == "abcdefghijklmnopqrstuvwxyz"

RECURSIVE Lower(_)
Lower(s) ==
    IF s = "" THEN ""
    ELSE LET c == Ch(s, 1)
             up == {i \in 1..26 : Ch(UpperCase, i) = c}
         IN (IF up = {} THEN c ELSE Ch(LowerCase, CHOOSE i \in up : TRUE))
            \o Lower(SubSeq(s, 2, Len(s)))

\* The index of the first anchor line of a script, 0 if it has none.
FirstAnchor(sc) ==
    LET at == {i \in 1..Len(sc) : sc[i].kind = "anchor"}
    IN IF at = {} THEN 0 ELSE SetMin(at)

\* The index of the last line of kind k before line a, 0 if there is none.
LastBefore(sc, k, a) ==
    LET at == {i \in 1..(a - 1) : sc[i].kind = k}
    IN IF at = {} THEN 0 ELSE SetMax(at)

\* The kinds of the directives that the line d carries.
KindsOf(d) ==
    IF d.kind # "anchor" THEN {d.kind}
    ELSE IF d = AnchorThenQueue THEN {"queue"} ELSE {}

RequiredKinds == {"name", "walltime", "nodes", "queue"}

StringKinds == {"name", "account", "exetime", "walltime", "pmem", "queue",
                "email", "message", "priority"}

(***************************************************************************)
(* C1.  Round trip, required fields only: a Job with its optional fields   *)
(* at their defaults, written by qsub_string and read back, comes back     *)
(* equal in every field but jobID, command included.                       *)
(***************************************************************************)
C1_RoundTripRequired ==
    (RoundTrip /\ Terminal /\ Given(job) = {}) =>
        /\ pc = "returned"
        /\ \A k \in DOMAIN job \ {"jobID"} : k \in DOMAIN self /\ self[k] = job[k]

(***************************************************************************)
(* C2.  A text without an anchor line: once readline() has returned the    *)
(* end of input, the scan has stopped and read() has failed with the       *)
(* report in which command and cd $PBS_O_WORKDIR are not found.            *)
(***************************************************************************)
C2_NoAnchorFails ==
    (pc # "idle" /\ line = "") =>
        /\ FailedMissing
        /\ report[Len(report)].required["command"] = NotFound
        /\ report[Len(report)].required["cd $PBS_O_WORKDIR"] = NotFound

(***************************************************************************)
(* C3.  Round trip with one optional field: with account, pmem, exetime,   *)
(* priority, or email together with message given, and the others at       *)
(* their defaults, the field (or the pair) is read back as it was.         *)
(***************************************************************************)
C3_RoundTripOptional ==
    (/\ RoundTrip /\ Terminal
     /\ job.message # None
     /\ Given(job) \in {{"account"}, {"pmem"}, {"exetime"}, {"priority"},
                        {"email"}, {"email", "message"}}) =>
        /\ pc = "returned"
        /\ \A k \in Given(job) \cup (IF job.email # None THEN {"message"} ELSE {}) :
              self[k] = job[k]

(***************************************************************************)
(* C4.  The auto flag: a line auto=<value> before the anchor sets auto to  *)
(* True only for true, t or 1 and to False only for false, f or 0, in any  *)
(* case of the letters; any other value makes read() fail at that line.    *)
(***************************************************************************)
C4_AutoFlagExact ==
    \A i \in 1..Len(script) :
        (HandWritten /\ script[i].kind = "auto" /\ line = Render(script[i])) =>
            IF Lower(script[i].val) \in {"true", "t", "1"}
            THEN pc # "raised" /\ self.auto = TRUE
            ELSE IF Lower(script[i].val) \in {"false", "f", "0"}
            THEN pc # "raised" /\ self.auto = FALSE
            ELSE /\ pc = "raised"
                 /\ report = <<[kind |-> "auto", line |-> line]>>

C6_AnchorPrecedence ==
    (HandWritten /\ AnchorFound) =>
        LET a == FirstAnchor(script)
            later == {i \in (a + 1)..Len(script) : TRUE}
            sameBefore(i) == \E j \in 1..a : /\ script[j].kind = script[i].kind
                                             /\ script[j].val = script[i].val
        IN /\ a # 0
           /\ pc # "scan"
           /\ pos = Len(qsubstr)
           /\ self.command = Flatten(SubSeq(script, a + 1, Len(script)))
           /\ \A i \in later :
                (script[i].kind \in StringKinds /\ ~sameBefore(i)) =>
                    (script[i].kind \in DOMAIN self =>
                        self[script[i].kind] # script[i].val)
           /\ pc = "raised" => FailedMissing

\* read() returned from a script with a name directive, a queue directive
\* or a second anchor after its anchor.
C6_Witness ==
    /\ HandWritten
    /\ pc = "returned"
    /\ \E i \in (FirstAnchor(script) + 1)..Len(script) :
          script[i].kind \in {"name", "queue", "anchor"}

(***************************************************************************)
(* C7.  Submission failure: each submit() calls misc.submit once; when it  *)
(* fails, the failure it raised is the one that leaves submit(), jobID is  *)
(* as before and no record is added; a record is added only when           *)
(* misc.submit returned and add is true, and it carries the identifier     *)
(* that was returned.                                                      *)
(***************************************************************************)
C7_SubmitFailure ==
    [][submits' = submits + 1 =>
          /\ calls' = calls + 1
          /\ miscRaised' # None =>
                /\ exc' = miscRaised'
                /\ job'.jobID = job.jobID
                /\ db' = db
          /\ db' # db =>
                /\ miscRaised' = None
                /\ add'
                /\ Len(db') = Len(db) + 1
                /\ db'[Len(db')].jobid = job'.jobID]_vars

(***************************************************************************)
(* C8.  Partial mail options: when just one of email and message is set,   *)
(* qsub_string writes neither the -M nor the -m line, and the text reads   *)
(* back with email None and message "a".                                   *)
(***************************************************************************)
C8_PartialMailSuppressed ==
    (RoundTrip /\ ((job.email = None) # (job.message = None))) =>
        /\ ~SearchLit(qsubstr, "#PBS -M")
        /\ ~SearchLit(qsubstr, "#PBS -m")
        /\ Terminal => /\ pc = "returned"
                       /\ self.email = None
                       /\ self.message = "a"

\* A Job with an email and no message was written and read back.
C8_Witness ==
    /\ RoundTrip
    /\ pc = "returned"
    /\ job.email # None
    /\ job.message = None

(***************************************************************************)
(* C9.  Positive counts: a Job that read() returns has nodes >= 1 and      *)
(* ppn >= 1.                                                               *)
(***************************************************************************)
C9_PositiveCounts ==
    pc = "returned" => self.nodes >= 1 /\ self.ppn >= 1

(***************************************************************************)
(* C10.  The last occurrence wins: in a text that read() accepts, each     *)
(* field has the value of the last line before the anchor that carries     *)
(* its directive, or its default when no line does.  The value depends on  *)
(* the last line of each kind alone, so lines of different kinds may be    *)
(* put in any order.                                                       *)
(***************************************************************************)
C10_LastOccurrenceWins ==
    (HandWritten /\ pc = "returned") =>
        LET a == FirstAnchor(script)
            last(k) == LastBefore(script, k, a)
        IN /\ \A k \in StringKinds :
                IF last(k) # 0 THEN self[k] = script[last(k)].val
                ELSE k \in {"account", "exetime", "pmem", "email", "message",
                            "priority"} =>
                        self[k] = ReadDefaults(NoAttrs)[k]
           /\ last("nodes") # 0 =>
                /\ self.nodes = script[last("nodes")].n
                /\ self.ppn = script[last("nodes")].p
           /\ self.auto = IF last("auto") = 0 THEN FALSE
                          ELSE Lower(script[last("auto")].val) \in {"true", "t", "1"}

=============================================================================
